---- MODULE Spec2Model ----
(***************************************************************************)
(* Model of jaxlib/gpu_sparse.py: the lowering of sparse operations to     *)
(* cusparse / hipsparse custom calls.  One behaviour is one call of one of *)
(* the eighteen partial bindings (cuda and rocm), taken statement by       *)
(* statement: validation, the backend descriptor query, custom_call, and   *)
(* the return.                                                             *)
(***************************************************************************)
EXTENDS Integers, Sequences, FiniteSets, TLC

VARIABLES cusparse, hipsparse, pc, fn, platform, args, loc, dq, cc, ret, err

vars == <<cusparse, hipsparse, pc, fn, platform, args, loc, dq, cc, ret, err>>

(* ---------------------------- bounds ----------------------------------- *)
MaxNnz == 2     \* 1-D operand lengths range over 1..MaxNnz
MaxDim == 2     \* rows, cols, Ccols range over 1..MaxDim
MaxBuf == 1     \* buffer sizes the backend may report: 0..MaxBuf

(* ---------------------------- values ----------------------------------- *)
None == "None"
DataTypes == {"F32", "F64"}            \* ir element types of data / mat
IndexTypes == {"I32", "I64"}           \* ir element types of index arrays
Precisions == {"float32", "float64", "float16"}     \* numpy dtypes given as t
Platforms == {"cu", "hip"}
LibStates == {"absent", "unsupported", "supported"}

Tensor(shape, et) == [shape |-> shape, et |-> et]
NoTensor == Tensor(<<>>, None)

Vectors(lens, ets) == {Tensor(<<n>>, e) : n \in lens, e \in ets}

NoArgs ==
  [data |-> NoTensor, indices |-> NoTensor, indptr |-> NoTensor,
   row |-> NoTensor, col |-> NoTensor, x |-> NoTensor, B |-> NoTensor,
   mat |-> NoTensor, dl |-> NoTensor, d |-> NoTensor, du |-> NoTensor,
   shape |-> <<0, 0>>, nnz |-> 0, transpose |-> FALSE,
   compute_dtype |-> None, compute_type |-> None,
   data_dtype |-> None, index_dtype |-> None, x_dtype |-> None,
   B_dtype |-> None, index_type |-> None,
   m |-> 0, n |-> 0, ldb |-> 0, t |-> None]

NoLoc ==
  [data_type |-> None, index_type |-> None, nnz |-> 0, rows |-> 0, cols |-> 0,
   Ccols |-> 0, compute_dtype |-> None, compute_type |-> None,
   buffer_size |-> 0, opaque |-> None, out_size |-> 0, f32 |-> FALSE,
   out |-> <<>>]

(* ------------------- module load: lines 28-46 -------------------------- *)
\* _cusparse / _hipsparse are None when the import fails, otherwise the
\* native module, whose *_supported attribute is False or True.
is_supported(lib) ==
  IF lib = "absent" THEN None
  ELSE IF lib = "supported" THEN "True" ELSE "False"

cuda_is_supported == is_supported(cusparse)
rocm_is_supported == is_supported(hipsparse)

Truthy(v) == v = "True"

\* both bindings handed the cusparse module
gpu_sparse_always_cusparse == cusparse

\* the gpu_sparse argument bound by partial(...)
gpu_sparse == IF platform = "cu" THEN cusparse ELSE hipsparse

(* ------------------- validators: lines 49-69 --------------------------- *)
\* Result of a validator: ok = FALSE when an assert fails.
Fail == [ok |-> FALSE, data_type |-> None, index_type |-> None, nnz |-> 0]

\* the CSR validator without its first assert
validate_csr_mhlo_no_indices_check(data, indices, indptr, shape) ==
  LET nnz == data.shape[1] IN
  IF indptr.et # indices.et THEN Fail
  ELSE IF indptr.shape # <<shape[1] + 1>> THEN Fail
  ELSE [ok |-> TRUE, data_type |-> data.et, index_type |-> indices.et,
        nnz |-> nnz]

validate_csr_mhlo(data, indices, indptr, shape) ==
  LET nnz == data.shape[1] IN
  IF indices.shape # <<nnz>> THEN Fail
  ELSE IF indptr.et # indices.et THEN Fail
  ELSE IF indptr.shape # <<shape[1] + 1>> THEN Fail
  ELSE [ok |-> TRUE, data_type |-> data.et, index_type |-> indices.et,
        nnz |-> nnz]

\* the COO validator without its element-type assert
validate_coo_mhlo_no_type_check(data, row, col, shape) ==
  LET nnz == data.shape[1] IN
  IF row.shape # <<nnz>> THEN Fail
  ELSE IF col.shape # <<nnz>> THEN Fail
  ELSE [ok |-> TRUE, data_type |-> data.et, index_type |-> row.et,
        nnz |-> nnz]

validate_coo_mhlo(data, row, col, shape) ==
  LET nnz == data.shape[1] IN
  IF row.shape # <<nnz>> THEN Fail
  ELSE IF col.et # row.et THEN Fail
  ELSE IF col.shape # <<nnz>> THEN Fail
  ELSE [ok |-> TRUE, data_type |-> data.et, index_type |-> row.et,
        nnz |-> nnz]

(* ------------------- backend adapter interface ------------------------- *)
\* Static parameters handed to a gpu_sparse.build_*_descriptor or
\* gtsv2_*_buffer_size call; unused positions keep their defaults.
NoParams ==
  [data_dtype |-> None, x_dtype |-> None, compute_dtype |-> None,
   index_dtype |-> None, rows |-> 0, cols |-> 0, Ccols |-> 0, nnz |-> 0,
   transpose |-> FALSE, m |-> 0, n |-> 0, ldb |-> 0]

Query(name, params) == [name |-> name, params |-> params]

\* What the native library can answer: it raises, or it returns a buffer
\* size and an opaque descriptor.
Raised == [ok |-> FALSE, buffer_size |-> 0, opaque |-> None]
Replies ==
  {Raised} \cup {[ok |-> TRUE, buffer_size |-> b, opaque |-> "opaque"] :
                   b \in 0..MaxBuf}

(* ------------------- mhlo_helpers.custom_call -------------------------- *)
Scratch(buffer_size) == Tensor(<<buffer_size>>, "I8")

Call(name, out_types, operands, config, in_layouts, out_layouts) ==
  [name |-> name, result_types |-> out_types, operands |-> operands,
   backend_config |-> config, operand_layouts |-> in_layouts,
   result_layouts |-> out_layouts]

\* custom_call returns one result handle per declared result type, in order.
custom_call(call) ==
  [i \in 1..Len(call.result_types) |->
     [call |-> call.name, index |-> i, type |-> call.result_types[i]]]

Rep(v, k) == [i \in 1..k |-> v]

(* ------------------- compute-type defaulting --------------------------- *)
\* if compute_dtype is None: compute_dtype = data_dtype; compute_type = data_type
default_compute_dtype(a) ==
  IF a.compute_dtype = None THEN a.data_dtype ELSE a.compute_dtype

default_compute_type(a, l) ==
  IF a.compute_dtype = None THEN l.data_type ELSE a.compute_type

\* out_size with the two branches exchanged
out_size_swapped(a, l) == IF a.transpose THEN l.rows ELSE l.cols

\* out_size = cols if transpose else rows
out_size(a, l) == IF a.transpose THEN l.cols ELSE l.rows

(* ------------------- _csr_todense_mhlo: lines 72-92 -------------------- *)
csr_todense_query(a, l) ==
  Query("build_csr_todense_descriptor",
        [NoParams EXCEPT !.data_dtype = a.data_dtype,
                         !.index_dtype = a.index_dtype,
                         !.rows = l.rows, !.cols = l.cols, !.nnz = l.nnz])

csr_todense_call(p, a, l) ==
  Call(p \o "sparse_csr_todense",
       <<Tensor(a.shape, l.data_type), Scratch(l.buffer_size)>>,
       <<a.data, a.indices, a.indptr>>,
       l.opaque,
       Rep(<<0>>, 3),
       <<(<<1, 0>>), (<<0>>)>>)

csr_todense_return(out) == <<out[1]>>

(* ------------------- _csr_fromdense_mhlo: lines 98-120 ----------------- *)
csr_fromdense_query(a, l) ==
  Query("build_csr_fromdense_descriptor",
        [NoParams EXCEPT !.data_dtype = a.data_dtype,
                         !.index_dtype = a.index_dtype,
                         !.rows = l.rows, !.cols = l.cols, !.nnz = a.nnz])

csr_fromdense_call(p, a, l) ==
  Call(p \o "sparse_csr_fromdense",
       <<Tensor(<<a.nnz>>, a.mat.et), Tensor(<<a.nnz>>, a.index_type),
         Tensor(<<l.rows + 1>>, a.index_type), Scratch(l.buffer_size)>>,
       <<a.mat>>,
       l.opaque,
       <<(<<1, 0>>)>>,
       Rep(<<0>>, 4))

\* the from-dense return without the slice
csr_fromdense_return_all(out) == out

csr_fromdense_return(out) == SubSeq(out, 1, 3)

(* ------------------- _csr_matvec_mhlo: lines 126-153 ------------------- *)
csr_matvec_query(a, l) ==
  Query("build_csr_matvec_descriptor",
        [NoParams EXCEPT !.data_dtype = a.data_dtype,
                         !.x_dtype = a.x_dtype,
                         !.compute_dtype = l.compute_dtype,
                         !.index_dtype = a.index_dtype,
                         !.rows = l.rows, !.cols = l.cols, !.nnz = l.nnz,
                         !.transpose = a.transpose])

csr_matvec_call(p, a, l) ==
  Call(p \o "sparse_csr_matvec",
       <<Tensor(<<l.out_size>>, l.compute_type), Scratch(l.buffer_size)>>,
       <<a.data, a.indices, a.indptr, a.x>>,
       l.opaque,
       Rep(<<0>>, 4),
       Rep(<<0>>, 2))

csr_matvec_return(out) == <<out[1]>>

(* ------------------- _csr_matmat_mhlo: lines 159-188 ------------------- *)
csr_matmat_query(a, l) ==
  Query("build_csr_matmat_descriptor",
        [NoParams EXCEPT !.data_dtype = a.data_dtype,
                         !.x_dtype = a.B_dtype,
                         !.compute_dtype = l.compute_dtype,
                         !.index_dtype = a.index_dtype,
                         !.rows = l.rows, !.cols = l.cols,
                         !.Ccols = l.Ccols, !.nnz = l.nnz,
                         !.transpose = a.transpose])

csr_matmat_call(p, a, l) ==
  Call(p \o "sparse_csr_matmat",
       <<Tensor(<<l.out_size, l.Ccols>>, l.compute_type),
         Scratch(l.buffer_size)>>,
       <<a.data, a.indices, a.indptr, a.B>>,
       l.opaque,
       <<(<<0>>), (<<0>>), (<<0>>), (<<1, 0>>)>>,
       <<(<<1, 0>>), (<<0>>)>>)

csr_matmat_return(out) == <<out[1]>>

(* ------------------- _coo_todense_mhlo: lines 194-214 ------------------ *)
coo_todense_query(a, l) ==
  Query("build_coo_todense_descriptor",
        [NoParams EXCEPT !.data_dtype = a.data_dtype,
                         !.index_dtype = a.index_dtype,
                         !.rows = l.rows, !.cols = l.cols, !.nnz = l.nnz])

coo_todense_call(p, a, l) ==
  Call(p \o "sparse_coo_todense",
       <<Tensor(a.shape, l.data_type), Scratch(l.buffer_size)>>,
       <<a.data, a.row, a.col>>,
       l.opaque,
       Rep(<<0>>, 3),
       <<(<<1, 0>>), (<<0>>)>>)

coo_todense_return(out) == <<out[1]>>

(* ------------------- _coo_fromdense_mhlo: lines 220-242 ---------------- *)
coo_fromdense_query(a, l) ==
  Query("build_coo_fromdense_descriptor",
        [NoParams EXCEPT !.data_dtype = a.data_dtype,
                         !.index_dtype = a.index_dtype,
                         !.rows = l.rows, !.cols = l.cols, !.nnz = a.nnz])

coo_fromdense_call(p, a, l) ==
  Call(p \o "sparse_coo_fromdense",
       <<Tensor(<<a.nnz>>, a.mat.et), Tensor(<<a.nnz>>, a.index_type),
         Tensor(<<a.nnz>>, a.index_type), Scratch(l.buffer_size)>>,
       <<a.mat>>,
       l.opaque,
       <<(<<1, 0>>)>>,
       Rep(<<0>>, 4))

coo_fromdense_return(out) == SubSeq(out, 1, 3)

(* ------------------- _coo_matvec_mhlo: lines 248-275 ------------------- *)
coo_matvec_query(a, l) ==
  Query("build_coo_matvec_descriptor",
        [NoParams EXCEPT !.data_dtype = a.data_dtype,
                         !.x_dtype = a.x_dtype,
                         !.compute_dtype = l.compute_dtype,
                         !.index_dtype = a.index_dtype,
                         !.rows = l.rows, !.cols = l.cols, !.nnz = l.nnz,
                         !.transpose = a.transpose])

coo_matvec_call(p, a, l) ==
  Call(p \o "sparse_coo_matvec",
       <<Tensor(<<l.out_size>>, l.compute_type), Scratch(l.buffer_size)>>,
       <<a.data, a.row, a.col, a.x>>,
       l.opaque,
       Rep(<<0>>, 4),
       Rep(<<0>>, 2))

coo_matvec_return(out) == <<out[1]>>

(* ------------------- _coo_matmat_mhlo: lines 281-310 ------------------- *)
coo_matmat_query(a, l) ==
  Query("build_coo_matmat_descriptor",
        [NoParams EXCEPT !.data_dtype = a.data_dtype,
                         !.x_dtype = a.x_dtype,
                         !.compute_dtype = l.compute_dtype,
                         !.index_dtype = a.index_dtype,
                         !.rows = l.rows, !.cols = l.cols,
                         !.Ccols = l.Ccols, !.nnz = l.nnz,
                         !.transpose = a.transpose])

coo_matmat_call(p, a, l) ==
  Call(p \o "sparse_coo_matmat",
       <<Tensor(<<l.out_size, l.Ccols>>, l.compute_type),
         Scratch(l.buffer_size)>>,
       <<a.data, a.row, a.col, a.B>>,
       l.opaque,
       <<(<<0>>), (<<0>>), (<<0>>), (<<1, 0>>)>>,
       <<(<<1, 0>>), (<<0>>)>>)

coo_matmat_return(out) == <<out[1]>>

(* ------------------- _gtsv2_mhlo: lines 316-335 ------------------------ *)
\* f32 = (t == np.float32)
gtsv2_f32(t) == t = "float32"

gtsv2_buffer_size_query(a, l) ==
  Query(IF l.f32 THEN "gtsv2_f32_buffer_size" ELSE "gtsv2_f64_buffer_size",
        [NoParams EXCEPT !.m = a.m, !.n = a.n, !.ldb = a.ldb])

gtsv2_descriptor_query(a, l) ==
  Query("build_gtsv2_descriptor",
        [NoParams EXCEPT !.m = a.m, !.n = a.n, !.ldb = a.ldb])

\* the gtsv2 call with B given a 1-D layout
gtsv2_call_flat_B(p, a, l) ==
  Call(p \o "sparse_gtsv2_" \o (IF l.f32 THEN "f32" ELSE "f64"),
       <<Tensor(<<a.ldb, a.n>>, IF l.f32 THEN "F32" ELSE "F64"),
         Scratch(l.buffer_size)>>,
       <<a.dl, a.d, a.du, a.B>>,
       l.opaque,
       Rep(<<0>>, 4),
       <<(<<1, 0>>), (<<0>>)>>)

gtsv2_call(p, a, l) ==
  Call(p \o "sparse_gtsv2_" \o (IF l.f32 THEN "f32" ELSE "f64"),
       <<Tensor(<<a.ldb, a.n>>, IF l.f32 THEN "F32" ELSE "F64"),
         Scratch(l.buffer_size)>>,
       <<a.dl, a.d, a.du, a.B>>,
       l.opaque,
       Rep(<<0>>, 3) \o <<(<<1, 0>>)>>,
       <<(<<1, 0>>), (<<0>>)>>)

gtsv2_return(out) == <<out[1]>>

(* ------------------- the operation catalog ----------------------------- *)
CsrFns == {"csr_todense", "csr_matvec", "csr_matmat"}
CooFns == {"coo_todense", "coo_matvec", "coo_matmat"}
FromDenseFns == {"csr_fromdense", "coo_fromdense"}
MatFns == {"csr_matvec", "csr_matmat", "coo_matvec", "coo_matmat"}
MatMatFns == {"csr_matmat", "coo_matmat"}

\* _coo_matmat_mhlo entered without its validator call
Validated_coo_matmat_skipped(f, a) ==
  IF f \in CsrFns THEN validate_csr_mhlo(a.data, a.indices, a.indptr, a.shape)
  ELSE IF f \in CooFns \ {"coo_matmat"}
  THEN validate_coo_mhlo(a.data, a.row, a.col, a.shape)
  ELSE IF f = "coo_matmat"
  THEN [ok |-> TRUE, data_type |-> a.data.et, index_type |-> a.row.et,
        nnz |-> a.data.shape[1]]
  ELSE [ok |-> TRUE, data_type |-> None, index_type |-> None, nnz |-> 0]

\* The validator call that opens a function body, if it has one.
Validated(f, a) ==
  IF f \in CsrFns THEN validate_csr_mhlo(a.data, a.indices, a.indptr, a.shape)
  ELSE IF f \in CooFns THEN validate_coo_mhlo(a.data, a.row, a.col, a.shape)
  ELSE [ok |-> TRUE, data_type |-> None, index_type |-> None, nnz |-> 0]

\* rows, cols = shape  /  rows, cols = mat_type.shape  /  _, Ccols = B_shape
Unpacked(f, a, l) ==
  IF f \in FromDenseFns
  THEN [l EXCEPT !.rows = a.mat.shape[1], !.cols = a.mat.shape[2]]
  ELSE IF f = "gtsv2" THEN [l EXCEPT !.f32 = gtsv2_f32(a.t)]
  ELSE [l EXCEPT !.rows = a.shape[1], !.cols = a.shape[2],
                 !.Ccols = IF f \in MatMatFns THEN a.B.shape[2] ELSE 0]

\* the defaulting block of the mat-vec and mat-mat functions
Defaulted(f, a, l) ==
  IF f \in MatFns
  THEN [l EXCEPT !.compute_dtype = default_compute_dtype(a),
                 !.compute_type = default_compute_type(a, l)]
  ELSE l

QueryOf(f, a, l) ==
  CASE f = "csr_todense" -> csr_todense_query(a, l)
    [] f = "csr_fromdense" -> csr_fromdense_query(a, l)
    [] f = "csr_matvec" -> csr_matvec_query(a, l)
    [] f = "csr_matmat" -> csr_matmat_query(a, l)
    [] f = "coo_todense" -> coo_todense_query(a, l)
    [] f = "coo_fromdense" -> coo_fromdense_query(a, l)
    [] f = "coo_matvec" -> coo_matvec_query(a, l)
    [] f = "coo_matmat" -> coo_matmat_query(a, l)
    [] f = "gtsv2" -> gtsv2_buffer_size_query(a, l)

CallOf(f, p, a, l) ==
  CASE f = "csr_todense" -> csr_todense_call(p, a, l)
    [] f = "csr_fromdense" -> csr_fromdense_call(p, a, l)
    [] f = "csr_matvec" -> csr_matvec_call(p, a, l)
    [] f = "csr_matmat" -> csr_matmat_call(p, a, l)
    [] f = "coo_todense" -> coo_todense_call(p, a, l)
    [] f = "coo_fromdense" -> coo_fromdense_call(p, a, l)
    [] f = "coo_matvec" -> coo_matvec_call(p, a, l)
    [] f = "coo_matmat" -> coo_matmat_call(p, a, l)
    [] f = "gtsv2" -> gtsv2_call(p, a, l)

ReturnOf(f, out) ==
  CASE f = "csr_todense" -> csr_todense_return(out)
    [] f = "csr_fromdense" -> csr_fromdense_return(out)
    [] f = "csr_matvec" -> csr_matvec_return(out)
    [] f = "csr_matmat" -> csr_matmat_return(out)
    [] f = "coo_todense" -> coo_todense_return(out)
    [] f = "coo_fromdense" -> coo_fromdense_return(out)
    [] f = "coo_matvec" -> coo_matvec_return(out)
    [] f = "coo_matmat" -> coo_matmat_return(out)
    [] f = "gtsv2" -> gtsv2_return(out)

\* an adapter failure that is swallowed
AfterReply_swallowed(reply, next) == next

\* An exception raised by the adapter leaves the function: nothing after the
\* raising statement runs.
AfterReply(reply, next) == IF reply.ok THEN next ELSE "failed"

(* ------------------- inputs -------------------------------------------- *)
\* The to-dense entry points draw all three components of the sparse triple
\* freely, so every assert of the validators can fail; the mat-vec and
\* mat-mat entry points draw indptr (CSR) and col (COO) with a conforming
\* length, leaving the indices / row length and the element types free.
Lens == 1..MaxNnz
Dims == 1..MaxDim
SparseData == Vectors(Lens, DataTypes)
SparseIdx == Vectors(Lens, IndexTypes)
Indptrs == Vectors(2..(MaxDim + 1), IndexTypes)
Shapes == Dims \X Dims
ComputeDtypes == {None, "float64"}
ComputeTypes == {None, "F64"}

(* ------------------- state --------------------------------------------- *)
Init ==
  /\ cusparse \in LibStates
  /\ hipsparse \in LibStates
  /\ pc = "idle"
  /\ fn = None
  /\ platform = None
  /\ args = NoArgs
  /\ loc = NoLoc
  /\ dq = <<>>
  /\ cc = <<>>
  /\ ret = <<>>
  /\ err = None

Enter(f, p, a) ==
  /\ pc' = "start"
  /\ fn' = f
  /\ platform' = p
  /\ args' = a
  /\ UNCHANGED <<cusparse, hipsparse, loc, dq, cc, ret, err>>

\* cuda_csr_todense / rocm_csr_todense
Invoke_csr_todense ==
  /\ pc = "idle"
  /\ \E p \in Platforms, data \in SparseData, indices \in SparseIdx,
     indptr \in Indptrs, shape \in Shapes :
    Enter("csr_todense", p,
          [NoArgs EXCEPT !.data = data, !.indices = indices,
                         !.indptr = indptr, !.shape = shape,
                         !.data_dtype = "float32", !.index_dtype = "int32"])

\* cuda_csr_fromdense / rocm_csr_fromdense
Invoke_csr_fromdense ==
  /\ pc = "idle"
  /\ \E p \in Platforms, shape \in Shapes, et \in DataTypes, nnz \in Lens,
     it \in IndexTypes :
    Enter("csr_fromdense", p,
          [NoArgs EXCEPT !.mat = Tensor(shape, et), !.nnz = nnz,
                         !.index_type = it,
                         !.data_dtype = "float32", !.index_dtype = "int32"])

\* cuda_csr_matvec / rocm_csr_matvec
Invoke_csr_matvec ==
  /\ pc = "idle"
  /\ \E p \in Platforms, data \in SparseData, indices \in SparseIdx,
     shape \in Shapes, tr \in BOOLEAN,
     cd \in ComputeDtypes, ct \in ComputeTypes :
    \E indptr \in Vectors({shape[1] + 1}, IndexTypes) :
    Enter("csr_matvec", p,
          [NoArgs EXCEPT !.data = data, !.indices = indices,
                         !.indptr = indptr, !.shape = shape,
                         !.x = Tensor(<<IF tr THEN shape[1] ELSE shape[2]>>,
                                      "F32"),
                         !.transpose = tr, !.compute_dtype = cd,
                         !.compute_type = ct,
                         !.data_dtype = "float32", !.index_dtype = "int32",
                         !.x_dtype = "float32"])

\* cuda_csr_matmat / rocm_csr_matmat
Invoke_csr_matmat ==
  /\ pc = "idle"
  /\ \E p \in Platforms, data \in SparseData, indices \in SparseIdx,
     shape \in Shapes, tr \in BOOLEAN,
     cd \in ComputeDtypes, ct \in ComputeTypes, k \in {1, MaxDim} :
    \E indptr \in Vectors({shape[1] + 1}, IndexTypes) :
    Enter("csr_matmat", p,
          [NoArgs EXCEPT !.data = data, !.indices = indices,
                         !.indptr = indptr, !.shape = shape,
                         !.B = Tensor(<<IF tr THEN shape[1] ELSE shape[2], k>>,
                                      "F32"),
                         !.transpose = tr, !.compute_dtype = cd,
                         !.compute_type = ct,
                         !.data_dtype = "float32", !.index_dtype = "int32",
                         !.B_dtype = "float32"])

\* cuda_coo_todense / rocm_coo_todense
Invoke_coo_todense ==
  /\ pc = "idle"
  /\ \E p \in Platforms, data \in SparseData, row \in SparseIdx,
     col \in SparseIdx, shape \in Shapes :
    Enter("coo_todense", p,
          [NoArgs EXCEPT !.data = data, !.row = row, !.col = col,
                         !.shape = shape,
                         !.data_dtype = "float32", !.index_dtype = "int32"])

\* cuda_coo_fromdense / rocm_coo_fromdense
Invoke_coo_fromdense ==
  /\ pc = "idle"
  /\ \E p \in Platforms, shape \in Shapes, et \in DataTypes, nnz \in Lens,
     it \in IndexTypes :
    Enter("coo_fromdense", p,
          [NoArgs EXCEPT !.mat = Tensor(shape, et), !.nnz = nnz,
                         !.index_type = it,
                         !.data_dtype = "float32", !.index_dtype = "int32"])

\* cuda_coo_matvec / rocm_coo_matvec
Invoke_coo_matvec ==
  /\ pc = "idle"
  /\ \E p \in Platforms, data \in SparseData, row \in SparseIdx,
     shape \in Shapes, tr \in BOOLEAN,
     cd \in ComputeDtypes, ct \in ComputeTypes :
    \E col \in Vectors({row.shape[1]}, IndexTypes) :
    Enter("coo_matvec", p,
          [NoArgs EXCEPT !.data = data, !.row = row, !.col = col,
                         !.shape = shape,
                         !.x = Tensor(<<IF tr THEN shape[1] ELSE shape[2]>>,
                                      "F32"),
                         !.transpose = tr, !.compute_dtype = cd,
                         !.compute_type = ct,
                         !.data_dtype = "float32", !.index_dtype = "int32",
                         !.x_dtype = "float32"])

\* cuda_coo_matmat / rocm_coo_matmat
Invoke_coo_matmat ==
  /\ pc = "idle"
  /\ \E p \in Platforms, data \in SparseData, row \in SparseIdx,
     shape \in Shapes, tr \in BOOLEAN,
     cd \in ComputeDtypes, ct \in ComputeTypes, k \in {1, MaxDim} :
    \E col \in Vectors({row.shape[1]}, IndexTypes) :
    Enter("coo_matmat", p,
          [NoArgs EXCEPT !.data = data, !.row = row, !.col = col,
                         !.shape = shape,
                         !.B = Tensor(<<IF tr THEN shape[1] ELSE shape[2], k>>,
                                      "F32"),
                         !.transpose = tr, !.compute_dtype = cd,
                         !.compute_type = ct,
                         !.data_dtype = "float32", !.index_dtype = "int32",
                         !.x_dtype = "float32"])

\* cuda_gtsv2 / rocm_gtsv2
Invoke_gtsv2 ==
  /\ pc = "idle"
  /\ \E p \in Platforms, m \in Dims, n \in Dims, t \in Precisions :
    LET et == IF t = "float32" THEN "F32"
              ELSE IF t = "float64" THEN "F64" ELSE "F16" IN
    Enter("gtsv2", p,
          [NoArgs EXCEPT !.dl = Tensor(<<m>>, et), !.d = Tensor(<<m>>, et),
                         !.du = Tensor(<<m>>, et),
                         !.B = Tensor(<<m, n>>, et),
                         !.m = m, !.n = n, !.ldb = m, !.t = t])

\* The validator call and the unpacking of the static shapes.
Validate ==
  /\ pc = "start"
  /\ LET v == Validated(fn, args) IN
       IF v.ok
       THEN /\ loc' = Unpacked(fn, args,
                        [loc EXCEPT !.data_type = v.data_type,
                                    !.index_type = v.index_type,
                                    !.nnz = v.nnz])
            /\ pc' = "query"
            /\ err' = err
       ELSE /\ pc' = "failed"
            /\ err' = "AssertionError"
            /\ loc' = loc
  /\ UNCHANGED <<cusparse, hipsparse, fn, platform, args, dq, cc, ret>>

\* gpu_sparse.build_*_descriptor(...) / gpu_sparse.gtsv2_*_buffer_size(...),
\* preceded by the compute-type defaulting and followed by out_size.
Describe ==
  /\ pc = "query"
  /\ LET l1 == Defaulted(fn, args, loc) IN
       IF gpu_sparse = "absent"
       THEN /\ pc' = "failed"
            /\ err' = "AttributeError"
            /\ UNCHANGED <<loc, dq>>
       ELSE \E reply \in Replies :
              /\ dq' = Append(dq, [query |-> QueryOf(fn, args, l1),
                                   reply |-> reply])
              /\ pc' = AfterReply(reply,
                                  IF fn = "gtsv2" THEN "config" ELSE "emit")
              /\ err' = IF reply.ok THEN err ELSE "BackendError"
              /\ loc' = IF reply.ok
                        THEN [l1 EXCEPT
                                !.buffer_size = reply.buffer_size,
                                !.opaque = IF fn = "gtsv2" THEN None
                                           ELSE reply.opaque,
                                !.out_size = IF fn \in MatFns
                                             THEN out_size(args, l1) ELSE 0]
                        ELSE loc
  /\ UNCHANGED <<cusparse, hipsparse, fn, platform, args, cc, ret>>

\* backend_config=gpu_sparse.build_gtsv2_descriptor(m, n, ldb): evaluated as
\* an argument, before custom_call is entered.
Gtsv2Config ==
  /\ pc = "config"
  /\ \E reply \in {r \in Replies : r.buffer_size = 0} :
       /\ dq' = Append(dq, [query |-> gtsv2_descriptor_query(args, loc),
                            reply |-> reply])
       /\ pc' = AfterReply(reply, "emit")
       /\ err' = IF reply.ok THEN err ELSE "BackendError"
       /\ loc' = IF reply.ok THEN [loc EXCEPT !.opaque = reply.opaque]
                 ELSE loc
  /\ UNCHANGED <<cusparse, hipsparse, fn, platform, args, cc, ret>>

\* out = custom_call(...).  ir.RankedTensorType.get rejects an element type
\* of None while the arguments are being built.
Emit ==
  /\ pc = "emit"
  /\ LET call == CallOf(fn, platform, args, loc) IN
       IF \E i \in 1..Len(call.result_types) : call.result_types[i].et = None
       THEN /\ pc' = "failed"
            /\ err' = "TypeError"
            /\ UNCHANGED <<cc, loc>>
       ELSE /\ cc' = Append(cc, call)
            /\ loc' = [loc EXCEPT !.out = custom_call(call)]
            /\ pc' = "called"
            /\ err' = err
  /\ UNCHANGED <<cusparse, hipsparse, fn, platform, args, dq, ret>>

\* return out[0]  /  return out[:3]
Return ==
  /\ pc = "called"
  /\ ret' = ReturnOf(fn, loc.out)
  /\ pc' = "done"
  /\ UNCHANGED <<cusparse, hipsparse, fn, platform, args, loc, dq, cc, err>>

Next ==
  \/ Invoke_csr_todense
  \/ Invoke_csr_fromdense
  \/ Invoke_csr_matvec
  \/ Invoke_csr_matmat
  \/ Invoke_coo_todense
  \/ Invoke_coo_fromdense
  \/ Invoke_coo_matvec
  \/ Invoke_coo_matmat
  \/ Invoke_gtsv2
  \/ Validate
  \/ Describe
  \/ Gtsv2Config
  \/ Emit
  \/ Return

Spec == Init /\ [][Next]_vars

(* ======================== properties =================================== *)
\* what the contracts say about the inputs, stated on the arguments alone
CsrWellFormed(a) ==
  /\ Len(a.indices.shape) = 1
  /\ a.indices.shape[1] = a.data.shape[1]
  /\ a.indptr.et = a.indices.et
  /\ Len(a.indptr.shape) = 1
  /\ a.indptr.shape[1] = a.shape[1] + 1

CooWellFormed(a) ==
  /\ Len(a.row.shape) = 1
  /\ a.row.shape[1] = a.data.shape[1]
  /\ a.col.et = a.row.et
  /\ Len(a.col.shape) = 1
  /\ a.col.shape[1] = a.data.shape[1]

ValidatorRan == pc \notin {"idle", "start"}
FailedValidation == pc = "failed" /\ err = "AssertionError"
Flag == IF platform = "cu" THEN cuda_is_supported ELSE rocm_is_supported

\* C1: the CSR validator fails unless length(indices) = nnz, indptr and
\* indices share an element type and length(indptr) = rows + 1; when all
\* three hold it succeeds and yields (element_type(data),
\* element_type(indices), nnz) with nnz = length(data).
C1_CsrValidator ==
  (fn \in CsrFns /\ ValidatorRan) =>
     IF CsrWellFormed(args)
     THEN /\ ~FailedValidation
          /\ loc.data_type = args.data.et
          /\ loc.index_type = args.indices.et
          /\ loc.nnz = args.data.shape[1]
     ELSE FailedValidation

C1_Witness ==
  /\ fn \in CsrFns
  /\ FailedValidation
  /\ args.indices.shape[1] # args.data.shape[1]
  /\ args.indptr.et = args.indices.et
  /\ args.indptr.shape[1] = args.shape[1] + 1

\* C2: the COO validator fails unless length(row) = nnz, col and row share
\* an element type and length(col) = nnz; when all three hold it succeeds
\* and yields (element_type(data), element_type(row), nnz).
C2_CooValidator ==
  (fn \in CooFns /\ ValidatorRan) =>
     IF CooWellFormed(args)
     THEN /\ ~FailedValidation
          /\ loc.data_type = args.data.et
          /\ loc.index_type = args.row.et
          /\ loc.nnz = args.data.shape[1]
     ELSE FailedValidation

C2_Witness ==
  /\ fn \in CooFns
  /\ FailedValidation
  /\ args.col.et # args.row.et
  /\ args.row.shape[1] = args.data.shape[1]
  /\ args.col.shape[1] = args.data.shape[1]

\* C3: in the to-dense, mat-vec and mat-mat operations of both formats, an
\* input the validator rejects never reaches the backend: no descriptor
\* query has been made, no custom call emitted and nothing returned.
C3_ValidateBeforeBackend ==
  /\ (fn \in {"csr_todense", "csr_matvec", "csr_matmat"}
        /\ ~CsrWellFormed(args))
       => (dq = <<>> /\ cc = <<>> /\ ret = <<>>)
  /\ (fn \in {"coo_todense", "coo_matvec", "coo_matmat"}
        /\ ~CooWellFormed(args))
       => (dq = <<>> /\ cc = <<>> /\ ret = <<>>)

C3_Witness ==
  /\ fn = "coo_matmat"
  /\ ~CooWellFormed(args)
  /\ FailedValidation
  /\ gpu_sparse = "supported"
  /\ dq = <<>>

\* C4: when a backend descriptor or buffer-size query raises, the call
\* fails with that error, custom_call is never invoked and nothing is
\* returned.
C4_BackendFailurePropagates ==
  (\E i \in 1..Len(dq) : ~dq[i].reply.ok) =>
     /\ pc = "failed"
     /\ err = "BackendError"
     /\ cc = <<>>
     /\ ret = <<>>

C4_Witness ==
  /\ fn = "gtsv2"
  /\ Len(dq) = 2
  /\ dq[1].reply.ok
  /\ ~dq[2].reply.ok
  /\ pc = "failed"

\* C5: a tridiagonal solve requested with a precision other than float32
\* or float64 fails and constructs no call site.
C5_Gtsv2RejectsOtherPrecisions ==
  (fn = "gtsv2" /\ args.t \notin {"float32", "float64"}) =>
     /\ cc = <<>>
     /\ pc \notin {"emit", "called", "done"}

\* C6 as stated: an operation against a backend whose capability flag is
\* false fails without querying a descriptor.
C6_FalseFlagNeverQueries ==
  (fn # None /\ ~Truthy(Flag)) => (dq = <<>> /\ pc # "done")

\* C6 amended: an operation against a backend whose native library is absent
\* (its flag is None) fails, at the validator or at the first adapter lookup,
\* without any descriptor query and without a custom call.
C6_AbsentBackendNeverQueries ==
  (fn # None /\ Flag = None) =>
     /\ dq = <<>>
     /\ cc = <<>>
     /\ ret = <<>>
     /\ pc \in {"start", "query", "failed"}
     /\ pc = "failed" => err \in {"AssertionError", "AttributeError"}

C6_Witness ==
  /\ fn = "csr_todense"
  /\ platform = "hip"
  /\ Flag = None
  /\ Truthy(cuda_is_supported)
  /\ pc = "failed"
  /\ err = "AttributeError"

\* the number of semantic outputs of each operation
SemanticOutputs(f) == IF f \in {"csr_fromdense", "coo_fromdense"} THEN 3 ELSE 1

\* C7: a successful operation has emitted exactly one custom call; its
\* declared results are the semantic outputs followed by one 1-D 8-bit
\* scratch buffer of the size the backend reported for this call, and the
\* operation returns the semantic outputs only.
C7_ScratchDeclaredAndDropped ==
  /\ Len(cc) <= 1
  /\ pc = "done" =>
       /\ Len(cc) = 1
       /\ LET c == cc[1]
              k == SemanticOutputs(fn)
          IN /\ Len(c.result_types) = k + 1
             /\ c.result_types[k + 1] =
                  [shape |-> <<dq[1].reply.buffer_size>>, et |-> "I8"]
             /\ Len(ret) = k
             /\ \A i \in 1..k :
                  ret[i] = [call |-> c.name, index |-> i,
                            type |-> c.result_types[i]]

C7_Witness ==
  /\ pc = "done"
  /\ fn = "csr_fromdense"
  /\ dq[1].reply.buffer_size = MaxBuf
  /\ Len(ret) = 3

\* C8: in mat-vec and mat-mat the declared output has leading dimension
\* cols when transpose is set and rows otherwise; the mat-mat output is
\* [out_size, Ccols] with Ccols the second dimension of B.
C8_OutSize ==
  (fn \in {"csr_matvec", "csr_matmat", "coo_matvec", "coo_matmat"}
     /\ cc # <<>>) =>
     LET want == IF args.transpose THEN args.shape[2] ELSE args.shape[1]
         got == cc[1].result_types[1].shape
     IN IF fn \in {"csr_matmat", "coo_matmat"}
        THEN got = <<want, args.B.shape[2]>>
        ELSE got = <<want>>

C8_Witness ==
  /\ fn = "coo_matmat"
  /\ cc # <<>>
  /\ args.transpose
  /\ args.shape[1] # args.shape[2]
  /\ args.B.shape[2] # args.shape[2]

\* C9: in mat-vec and mat-mat, once the backend has answered, the call site
\* is assembled with a defined output element type: the compute type the
\* caller gave, or the element type of data when none was given, in which
\* case the descriptor builder was handed data_dtype as the compute dtype.
C9_ComputeTypeDefaulting ==
  (fn \in {"csr_matvec", "csr_matmat", "coo_matvec", "coo_matmat"}
     /\ dq # <<>> /\ dq[1].reply.ok /\ pc # "emit") =>
     /\ pc # "failed"
     /\ cc # <<>>
     /\ cc[1].result_types[1].et =
          (IF args.compute_type = None THEN args.data.et
           ELSE args.compute_type)
     /\ (args.compute_type = None /\ args.compute_dtype = None) =>
          dq[1].query.params.compute_dtype = args.data_dtype

\* the layout the contract gives a tensor of each rank
RowMajor(t) == IF Len(t.shape) = 1 THEN <<0>> ELSE <<1, 0>>

\* the operands of each operation, in the order of the contract table
TableOperands(f, a) ==
  CASE f \in {"csr_todense"} -> <<a.data, a.indices, a.indptr>>
    [] f \in {"coo_todense"} -> <<a.data, a.row, a.col>>
    [] f \in {"csr_fromdense", "coo_fromdense"} -> <<a.mat>>
    [] f = "csr_matvec" -> <<a.data, a.indices, a.indptr, a.x>>
    [] f = "coo_matvec" -> <<a.data, a.row, a.col, a.x>>
    [] f = "csr_matmat" -> <<a.data, a.indices, a.indptr, a.B>>
    [] f = "coo_matmat" -> <<a.data, a.row, a.col, a.B>>
    [] f = "gtsv2" -> <<a.dl, a.d, a.du, a.B>>

\* C10: every emitted call carries one layout per operand and one per
\* declared result (scratch included), [0] for each 1-D tensor and [1, 0]
\* for each 2-D tensor, with the operands in the order of the table.
C10_Layouts ==
  \A j \in 1..Len(cc) :
    LET c == cc[j] IN
      /\ c.operands = TableOperands(fn, args)
      /\ Len(c.operand_layouts) = Len(c.operands)
      /\ Len(c.result_layouts) = Len(c.result_types)
      /\ \A i \in 1..Len(c.operands) :
           /\ Len(c.operands[i].shape) \in {1, 2}
           /\ c.operand_layouts[i] = RowMajor(c.operands[i])
      /\ \A i \in 1..Len(c.result_types) :
           /\ Len(c.result_types[i].shape) \in {1, 2}
           /\ c.result_layouts[i] = RowMajor(c.result_types[i])

C10_Witness ==
  /\ fn = "gtsv2"
  /\ Len(cc) = 1
  /\ Len(cc[1].operands) = 4
  /\ Len(cc[1].operands[4].shape) = 2

====
